---------------------------- MODULE Spec2Model ----------------------------
(***************************************************************************)
(* Model of the disamwiki crawler: the title resolver of disamwiki.py      *)
(* (get_articles, get_article_fragment), the Article tree, the Requests    *)
(* worker threads and the event loop of main.py.                           *)
(*                                                                         *)
(* Titles are sequences of characters (one-character strings), so that     *)
(* find('#'), partition('#') and string concatenation are computed as the  *)
(* code computes them.  Python's None is the empty tuple and a present     *)
(* value x is <<x>> for the fields that may hold None.  Article objects    *)
(* live in an arena (heap); a reference is an index into it and the None   *)
(* reference is 0.                                                         *)
(***************************************************************************)
EXTENDS Integers, Sequences, FiniteSets, TLC

VARIABLES
    wiki,                   \* the backend behind _wikirequest (read only)
    call,                   \* a direct call of the resolver and its return
    TERM,                   \* args.term
    MAX_LEVEL,              \* args.num_levels
    NUM_LINKS,              \* per-level link budgets
    requests_input_queue,   \* Queue of [parent, requestgroup]
    unfinished_tasks,       \* requests_input_queue.unfinished_tasks
    requests_output_queue,  \* Queue of Article references
    heap,                   \* the Article objects created so far
    threads,                \* the Requests threads' local state
    cstate,                 \* where the main thread is in its event loop
    recievedarticles,       \* the event loop's accumulator
    writeout                \* the write phase: its inputs, the disk, the output

vars == <<wiki, call, TERM, MAX_LEVEL, NUM_LINKS, requests_input_queue,
          unfinished_tasks, requests_output_queue, heap, threads, cstate,
          recievedarticles, writeout>>

crawlvars == <<TERM, MAX_LEVEL, NUM_LINKS, requests_input_queue,
               unfinished_tasks, requests_output_queue, heap, threads, cstate,
               recievedarticles, writeout>>

-----------------------------------------------------------------------------
(* Bounds of the model and constants of the program *)

\* number of Requests threads in the model (the program starts 15)
NumThreads == 2

\* largest --num_levels drawn for a run
MaxLevels == 2

\* feed_titles: chunk_num
chunk_num == 5

-----------------------------------------------------------------------------
(* Python values *)

None == <<>>

Some(x) == <<x>>

NoParent == 0

\* the linkname None that feed_disambig_title passes for the seed request
NoLinkname == "None"

Range(s) == {s[i] : i \in DOMAIN s}

Perms(S) == {s \in [1..Cardinality(S) -> S] : \A i, j \in DOMAIN s : s[i] = s[j] => i = j}

Min(S) == CHOOSE x \in S : \A y \in S : x <= y

Max(S) == CHOOSE x \in S : \A y \in S : x >= y

\* title.find('#'): 0-based index of the first '#', -1 when there is none
find_hash(title) ==
    LET at == {i \in DOMAIN title : title[i] = "#"}
    IN  IF at = {} THEN -1 ELSE Min(at) - 1

\* ts.partition('#') for a ts that holds a '#': <<head, tail>>
partition_hash(ts) ==
    LET k == find_hash(ts) + 1
    IN  <<SubSeq(ts, 1, k - 1), SubSeq(ts, k + 1, Len(ts))>>

\* u'{}#{}'.format(a, b)
format_fragment(a, b) == a \o <<"#">> \o b

-----------------------------------------------------------------------------
(* Article *)

Article(pageid, search_title, title, wikitext) ==
    [pageid |-> pageid, search_title |-> search_title, title |-> title,
     wikitext |-> wikitext, parent |-> NoParent, children |-> <<>>,
     links |-> None, plaintext |-> None]

\* Article.missing: self.pageid < 0 (in Python 2, None < 0 is True)
missing(a) == IF a.pageid = None THEN TRUE ELSE a.pageid[1] < 0

-----------------------------------------------------------------------------
(* The backend: what _wikirequest answers *)

\* the title the backend resolves t to: normalization, then one redirect
FinalTitle(t) ==
    LET n == IF t \in DOMAIN wiki.norms THEN wiki.norms[t] ELSE t
    IN  IF n \in DOMAIN wiki.redirects THEN wiki.redirects[n].to ELSE n

\* action=query&prop=revisions&redirects for titles, restricted to rvsection
wikirequest_query(titles, section) ==
    LET asked  == Range(titles)
        normed == {IF t \in DOMAIN wiki.norms THEN wiki.norms[t] ELSE t : t \in asked}
        finals == {FinalTitle(t) : t \in asked}
        first(T) == Min({i \in DOMAIN titles : FinalTitle(titles[i]) = T})
        gone   == {T \in finals : T \notin DOMAIN wiki.pageids}
        rank(T) == Cardinality({U \in gone : first(U) <= first(T)})
    IN  [normalized |-> [t \in asked \cap DOMAIN wiki.norms |-> wiki.norms[t]],
         redirects  |-> [t \in normed \cap DOMAIN wiki.redirects |-> wiki.redirects[t]],
         pages      |-> {IF T \in DOMAIN wiki.pageids
                            THEN [pageid |-> wiki.pageids[T], title |-> T, missing |-> FALSE,
                                  revisions |-> Some([page |-> T, section |-> section])]
                            ELSE [pageid |-> 0 - rank(T), title |-> T, missing |-> TRUE,
                                  revisions |-> None]
                         : T \in finals}]

\* action=parse&prop=sections&redirects: the section table of the page, or
\* an answer without 'parse' (the lookup query['parse'] raises KeyError)
wikirequest_parse(page) ==
    IF FinalTitle(page) \in DOMAIN wiki.pageids
        THEN [raised |-> FALSE, sections |-> wiki.sections[FinalTitle(page)]]
        ELSE [raised |-> TRUE, sections |-> <<>>]

-----------------------------------------------------------------------------
(* disamwiki.get_articles and disamwiki.get_article_fragment *)

Raised == [raised |-> TRUE, value |-> None]

Returned(v) == [raised |-> FALSE, value |-> v]

\* ResolveTitle without line 168: the redirect's target is not taken
ResolveTitle_mut(search_title, norms, redirects) ==
    LET t1 == IF search_title \in DOMAIN norms THEN norms[search_title] ELSE search_title
    IN  [search_title |-> search_title, title |-> t1,
         tofragment |-> IF t1 \in DOMAIN redirects THEN redirects[t1].tofragment ELSE None,
         pageid |-> None, wikitext |-> None]

\* lines 160-171: one articledata entry, normalization and redirect applied
ResolveTitle(search_title, norms, redirects) ==
    LET t1 == IF search_title \in DOMAIN norms THEN norms[search_title] ELSE search_title
    IN  IF t1 \in DOMAIN redirects
            THEN [search_title |-> search_title, title |-> redirects[t1].to,
                  tofragment |-> redirects[t1].tofragment,
                  pageid |-> None, wikitext |-> None]
            ELSE [search_title |-> search_title, title |-> t1, tofragment |-> None,
                  pageid |-> None, wikitext |-> None]

\* MatchPages without the continue of lines 183-184: a page marked missing
\* gives its articles a content too
MatchPages_mut(article, pages) ==
    LET articlematch == {p \in pages : p.title = article.title}
    IN  IF articlematch = {} THEN article
        ELSE LET wikipage == CHOOSE p \in articlematch : TRUE
             IN  [article EXCEPT
                    !.pageid = Some(wikipage.pageid),
                    !.wikitext = Some([page |-> wikipage.title, section |-> None])]

\* lines 175-190: the page payloads matched back to an articledata entry
MatchPages(article, pages) ==
    LET articlematch == {p \in pages : p.title = article.title}
    IN  IF articlematch = {} THEN article
        ELSE LET wikipage == CHOOSE p \in articlematch : TRUE
             IN  [article EXCEPT
                    !.pageid = Some(wikipage.pageid),
                    !.wikitext = IF ~wikipage.missing /\ wikipage.revisions # None
                                    THEN wikipage.revisions ELSE None]

\* the section number get_article_fragment finds: the last matching line
FindSection(sections, fragmenttitle) ==
    LET hits == {i \in DOMAIN sections : sections[i] = fragmenttitle}
    IN  IF hits = {} THEN None ELSE Some(Max(hits))

\* NewArticle with the resolved title passed where the search title belongs
NewArticle_mut(ar) == Article(ar.pageid, ar.title, Some(ar.title), ar.wikitext)

\* line 200
NewArticle(ar) == Article(ar.pageid, ar.search_title, Some(ar.title), ar.wikitext)

RECURSIVE get_articles(_, _)
RECURSIVE get_article_fragment(_, _)
RECURSIVE CreateArticles(_, _, _)

\* lines 192-201: Article instances from the articledata, in order
CreateArticles(articledata, i, returnarticles) ==
    IF i > Len(articledata) THEN Returned(returnarticles)
    ELSE LET ar == articledata[i]
         IN  IF ar.tofragment # None
                THEN LET r == get_article_fragment(ar.title, ar.tofragment[1])
                     IN  IF r.raised THEN Raised
                         ELSE CreateArticles(articledata, i + 1,
                                Append(returnarticles,
                                       [r.value EXCEPT !.search_title = ar.search_title]))
                ELSE CreateArticles(articledata, i + 1,
                        Append(returnarticles, NewArticle(ar)))

get_articles(search_titles, section) ==
    IF Len(search_titles) = 0 THEN Returned(None)
    ELSE LET query == wikirequest_query(search_titles, section)
             articledata == [i \in DOMAIN search_titles |->
                                MatchPages(ResolveTitle(search_titles[i], query.normalized,
                                                        query.redirects),
                                           query.pages)]
         IN  CreateArticles(articledata, 1, <<>>)

\* FragmentNotFound with the composite title also given as the title
FragmentNotFound_mut(title) == Article(Some(-1), title, Some(title), None)

\* line 242: the Article returned when no section line matches
FragmentNotFound(title) == Article(Some(-1), title, None, None)

get_article_fragment(articletitle, fragmenttitle) ==
    LET query == wikirequest_parse(articletitle)
        sectionnum == FindSection(query.sections, fragmenttitle)
        title == format_fragment(articletitle, fragmenttitle)
    IN  IF query.raised THEN Raised
        ELSE IF sectionnum = None THEN Returned(FragmentNotFound(title))
        ELSE LET r == get_articles(<<articletitle>>, Some(sectionnum[1]))
             IN  IF r.raised THEN Raised
                 ELSE Returned([r.value[1] EXCEPT !.title = Some(title),
                                                  !.search_title = title])

-----------------------------------------------------------------------------
(* The wiki the crawl runs against *)

Disambig == <<" (disambiguation)">>

PageM == <<"m">> \o Disambig

PageF == <<"F">>

PageG == <<"G">>

\* a title of one character outside ASCII (U+00E9)
PageE == <<"U+00E9">>

PageK == <<"k">> \o Disambig

\* the links mwlib extracts from the whole text of "k (disambiguation)": the
\* sixth is a section of the page "y", which does not exist
LinksK ==
    << <<"A", PageE>>, <<"A", PageE>>, <<"A", PageE>>, <<"A", PageE>>,
       <<"A", PageE>>, <<"C", <<"y", "#", "s">> >> >>

PageN == <<"n">> \o Disambig

\* the links mwlib extracts from the whole text of "n (disambiguation)": the
\* link name "A" twice and the link name "A_2", all three to "g", a link
\* to the section "s" of "F" and a link to "F"
LinksN ==
    << <<"A", <<"g">> >>, <<"A", <<"g">> >>, <<"A_2", <<"g">> >>,
       <<"S", <<"F", "#", "s">> >>, <<"B", <<"F">> >> >>

\* the links mwlib extracts from the whole text of "m (disambiguation)"
RootLinks ==
    << <<"A", PageE>>, <<"B", <<"F">> >>, <<"B", <<"F">> >>,
       <<"A", <<"F">> >>, <<"B", <<"F">> >>, <<"A", PageE>> >>

\* the links of the first section of "F"
LeadLinksF ==
    << <<"S", <<"#", "s">> >>, <<"Q", <<"Q">> >>, <<"G", <<"g">> >> >>

\* "m (disambiguation)" and "F" have a section "s" and "G" has none; "g" is
\* normalized to "G", "Q" redirects to the fragment "z" of "F", which "F" does
\* not have; the pages of PageE, "y" and "x (disambiguation)" do not exist
CrawlWiki ==
    [norms     |-> (<<"g">> :> PageG),
     redirects |-> (<<"Q">> :> [to |-> PageF, tofragment |-> Some(<<"z">>)]),
     pageids   |-> (PageM :> 1 @@ PageF :> 2 @@ PageG :> 3 @@ PageK :> 4 @@ PageN :> 5),
     sections  |-> (PageM :> << <<"s">> >> @@ PageF :> << <<"s">> >> @@ PageG :> <<>>
                    @@ PageK :> <<>> @@ PageN :> <<>>),
     links     |-> ([page |-> PageM, section |-> None] :> RootLinks
                    @@ [page |-> PageK, section |-> None] :> LinksK
                    @@ [page |-> PageN, section |-> None] :> LinksN
                    @@ [page |-> PageF, section |-> Some(0)] :> LeadLinksF
                    @@ [page |-> PageF, section |-> Some(1)] :> <<>>
                    @@ [page |-> PageG, section |-> Some(0)] :> <<>>)]

\* the terms given on the command line
Terms == {<<"m">>, <<"k">>, <<"n">>, <<"x">>, <<"#", "s">>, <<"x", "#", "s">>}

\* --num_disambig_links (default None: all) and --num_page_links
NdlChoices == {None, Some(3)}

NplChoices == {2}

-----------------------------------------------------------------------------
(* main.py helpers *)

\* chunks that yields l[i:i+n+1]
chunks_mut(l, n) ==
    [c \in 1..((Len(l) + n - 1) \div n) |->
        SubSeq(l, (c - 1) * n + 1, Min({c * n + 1, Len(l)}))]

\* chunks(l, n)
chunks(l, n) ==
    [c \in 1..((Len(l) + n - 1) \div n) |->
        SubSeq(l, (c - 1) * n + 1, Min({c * n, Len(l)}))]

\* feed_titles: the items put on the queue, in order
feed_titles(request, parent) ==
    LET groups == chunks(request, chunk_num)
    IN  [c \in DOMAIN groups |-> [parent |-> parent, linkname_title |-> groups[c]]]

\* feed_disambig_title
feed_disambig_title(term) ==
    feed_titles(<< <<NoLinkname, term \o Disambig>> >>, NoParent)

\* DictAppend that puts a new list in the place of the one of the key
DictAppend_mut(d, k, v) ==
    IF k \in DOMAIN d THEN [d EXCEPT ![k] = <<v>>] ELSE d @@ (k :> <<v>>)

\* defaultdict(list): d[k].append(v)
DictAppend(d, k, v) ==
    IF k \in DOMAIN d THEN [d EXCEPT ![k] = Append(@, v)] ELSE d @@ (k :> <<v>>)

\* Article.get_level
RECURSIVE get_level(_)
get_level(a) == IF heap[a].parent = NoParent THEN 0 ELSE 1 + get_level(heap[a].parent)

\* s[::-1]
Reverse(s) == [i \in 1..Len(s) |-> s[Len(s) + 1 - i]]

\* sep.join(strings)
RECURSIVE Join(_, _)
Join(strings, sep) ==
    IF strings = <<>> THEN <<>>
    ELSE IF Len(strings) = 1 THEN strings[1]
    ELSE strings[1] \o sep \o Join(Tail(strings), sep)

\* the separator of get_hierarchy
Arrow == <<" --> ">>

\* page.get_title() or page.get_search_title(): None and the empty string
\* are false
TitleOrSearchTitle(page) ==
    IF heap[page].title = None \/ heap[page].title = Some(<<>>)
        THEN Some(heap[page].search_title)
        ELSE heap[page].title

\* lines 118-120: the titles of the parents of page, nearest first
RECURSIVE ParentTitles(_)
ParentTitles(page) ==
    IF heap[page].parent = NoParent THEN <<>>
    ELSE <<heap[heap[page].parent].title>> \o ParentTitles(heap[page].parent)

\* get_hierarchy that joins the list without reversing it
get_hierarchy_mut(page) ==
    LET reversedhierarchy == <<TitleOrSearchTitle(page)>> \o ParentTitles(page)
    IN  IF \E i \in DOMAIN reversedhierarchy : reversedhierarchy[i] = None THEN Raised
        ELSE Returned(Join([i \in DOMAIN reversedhierarchy |-> reversedhierarchy[i][1]],
                           Arrow))

\* Article.get_hierarchy; joining a None raises TypeError
get_hierarchy(page) ==
    LET reversedhierarchy == <<TitleOrSearchTitle(page)>> \o ParentTitles(page)
        hierarchy == Reverse(reversedhierarchy)
    IN  IF \E i \in DOMAIN hierarchy : hierarchy[i] = None THEN Raised
        ELSE Returned(Join([i \in DOMAIN hierarchy |-> hierarchy[i][1]], Arrow))

\* get_links that returns one link more than numlinks
get_links_mut(article, numlinks) ==
    IF numlinks = None THEN article.links[1]
    ELSE SubSeq(article.links[1], 1, Min({numlinks[1] + 1, Len(article.links[1])}))

\* Article.get_links: self.links[:numlinks]
get_links(article, numlinks) ==
    IF numlinks = None THEN article.links[1]
    ELSE SubSeq(article.links[1], 1, Min({numlinks[1], Len(article.links[1])}))

\* Article.parse: the links and the text mwlib extracts from the wikitext;
\* the text of a wikitext is named by the page and section it is of
parse(article) ==
    IF missing(article) THEN article
    ELSE [article EXCEPT !.links = Some(wiki.links[article.wikitext[1]]),
                         !.plaintext = Some(<<article.wikitext[1].page,
                                                article.wikitext[1].section>>)]

\* line 307
MakeNumLinks(ndl, npl, maxlevel) ==
    <<ndl>> \o [i \in 1..(maxlevel - 1) |-> Some(npl)]

-----------------------------------------------------------------------------
(* Requests.run *)

IdleThread ==
    [pc |-> "get", parent |-> NoParent, linkname_title |-> <<>>, articles |-> <<>>,
     searchtitles |-> <<>>, order |-> <<>>, k |-> 0, j |-> 0, exc |-> "none"]

\* a thread ended by an uncaught exception
DeadThread(exc) == [IdleThread EXCEPT !.pc = "dead", !.exc = exc]

Threads == 1..NumThreads

\* lines 44-57: the requests split by type; raised is the ValueError
RECURSIVE SplitTitles(_, _, _, _, _)
SplitTitles(parent, linkname_title, i, simpletitles, titlesection) ==
    IF i > Len(linkname_title)
        THEN [raised |-> FALSE, simpletitles |-> simpletitles, titlesection |-> titlesection]
    ELSE LET linkname == linkname_title[i][1]
             title == linkname_title[i][2]
             hashtagExists == find_hash(title)
         IN  IF hashtagExists = -1
                THEN SplitTitles(parent, linkname_title, i + 1,
                                 DictAppend(simpletitles, title, linkname), titlesection)
             ELSE IF hashtagExists = 0
                THEN IF parent = NoParent
                        THEN [raised |-> TRUE, simpletitles |-> <<>>, titlesection |-> <<>>]
                        ELSE SplitTitles(parent, linkname_title, i + 1, simpletitles,
                                DictAppend(titlesection, heap[parent].title[1] \o title,
                                           linkname))
             ELSE SplitTitles(parent, linkname_title, i + 1, simpletitles,
                              DictAppend(titlesection, title, linkname))

\* lines 70-73: one get_article_fragment per key of titlesection, in dict order
RECURSIVE FragmentArticles(_, _, _)
FragmentArticles(tsorder, i, articles) ==
    IF i > Len(tsorder) THEN Returned(articles)
    ELSE LET parts == partition_hash(tsorder[i])
             r == get_article_fragment(parts[1], parts[2])
         IN  IF r.raised THEN Raised
             ELSE FragmentArticles(tsorder, i + 1, Append(articles, r.value))

\* lines 59-73: the articles list for one queue item; the dicts are iterated
\* in the orders storder and tsorder
RequestArticles(parent, storder, tsorder) ==
    LET simparticles == get_articles(storder, IF parent = NoParent THEN None ELSE Some(0))
    IN  IF simparticles.raised THEN Raised
        ELSE FragmentArticles(tsorder, 1,
                IF simparticles.value = None THEN <<>> ELSE simparticles.value)

\* self._inputqueue.get()
Get(t) ==
    /\ threads[t].pc = "get"
    /\ requests_input_queue # <<>>
    /\ threads' = [threads EXCEPT ![t] =
            [IdleThread EXCEPT !.pc = "request",
                               !.parent = Head(requests_input_queue).parent,
                               !.linkname_title = Head(requests_input_queue).linkname_title]]
    /\ requests_input_queue' = Tail(requests_input_queue)
    /\ UNCHANGED <<wiki, call, writeout, TERM, MAX_LEVEL, NUM_LINKS, unfinished_tasks,
                   requests_output_queue, heap, cstate, recievedarticles>>

\* lines 44-73: split the titles and request the articles.  An exception
\* (ValueError, or KeyError from the resolver) ends the thread.
Request(t) ==
    /\ threads[t].pc = "request"
    /\ LET me == threads[t]
           split == SplitTitles(me.parent, me.linkname_title, 1, <<>>, <<>>)
       IN  IF split.raised
              THEN /\ threads' = [threads EXCEPT ![t] = DeadThread("ValueError")]
                   /\ heap' = heap
           ELSE \E storder \in Perms(DOMAIN split.simpletitles),
                   tsorder \in Perms(DOMAIN split.titlesection),
                   order \in Perms(DOMAIN split.simpletitles \cup DOMAIN split.titlesection) :
                LET r == RequestArticles(me.parent, storder, tsorder)
                IN  IF r.raised
                       THEN /\ threads' = [threads EXCEPT ![t] = DeadThread("KeyError")]
                            /\ heap' = heap
                    ELSE /\ heap' = heap \o r.value
                         /\ threads' = [threads EXCEPT ![t] =
                               [me EXCEPT
                                  !.pc = IF me.parent # NoParent /\ order # <<>>
                                            THEN "attach"
                                         ELSE IF r.value # <<>> THEN "put"
                                         ELSE "task_done",
                                  !.articles = [n \in DOMAIN r.value |-> Len(heap) + n],
                                  !.searchtitles = split.simpletitles @@ split.titlesection,
                                  !.order = order,
                                  !.k = 1,
                                  !.j = 0]]
    /\ UNCHANGED <<wiki, call, writeout, TERM, MAX_LEVEL, NUM_LINKS, requests_input_queue,
                   unfinished_tasks, requests_output_queue, cstate, recievedarticles>>

\* StArticle that takes the first article whatever the search title
StArticle_mut(articles, searchtitle) == articles[1]

\* st_article[searchtitle]: the last article of the list with that search title
StArticle(articles, searchtitle) ==
    LET at == {n \in DOMAIN articles : heap[articles[n]].search_title = searchtitle}
    IN  IF at = {} THEN NoParent ELSE articles[Max(at)]

\* set_parent that leaves the parent unset
set_parent_mut(h, article, parent) == h

\* Article.set_parent
set_parent(h, article, parent) == [h EXCEPT ![article].parent = parent]

\* add_child that skips a child the list already holds
add_child_mut(h, parent, childarticle, linkname) ==
    IF /\ linkname \in DOMAIN h[parent].children
       /\ childarticle \in Range(h[parent].children[linkname])
        THEN h
        ELSE [h EXCEPT ![parent].children = DictAppend(@, linkname, childarticle)]

\* one iteration of Article.add_children: self.children[linkname].append(childarticle)
add_child(h, parent, childarticle, linkname) ==
    [h EXCEPT ![parent].children = DictAppend(@, linkname, childarticle)]

\* lines 76-82, one statement at a time: j = 0 is set_parent, j >= 1 is the
\* j-th append of add_children
Attach(t) ==
    /\ threads[t].pc = "attach"
    /\ LET me == threads[t]
           searchtitle == me.order[me.k]
           linknamelist == me.searchtitles[searchtitle]
           article == StArticle(me.articles, searchtitle)
           last == me.j = Len(linknamelist)
       IN  IF article = NoParent
              THEN /\ threads' = [threads EXCEPT ![t] = DeadThread("KeyError")]
                   /\ heap' = heap
           ELSE IF me.j = 0
              THEN /\ heap' = set_parent(heap, article, me.parent)
                   /\ threads' = [threads EXCEPT ![t].j = 1]
           ELSE /\ heap' = add_child(heap, me.parent, article, linknamelist[me.j])
                /\ threads' = [threads EXCEPT ![t] =
                      IF ~last THEN [me EXCEPT !.j = me.j + 1]
                      ELSE IF me.k < Len(me.order) THEN [me EXCEPT !.k = me.k + 1, !.j = 0]
                      ELSE [me EXCEPT !.pc = "put", !.k = 1, !.j = 0]]
    /\ UNCHANGED <<wiki, call, writeout, TERM, MAX_LEVEL, NUM_LINKS, requests_input_queue,
                   unfinished_tasks, requests_output_queue, cstate, recievedarticles>>

\* Put that goes on to task_done after the first article
Put_mut(t) ==
    /\ threads[t].pc = "put"
    /\ LET me == threads[t]
       IN  /\ requests_output_queue' = Append(requests_output_queue, me.articles[me.k])
           /\ threads' = [threads EXCEPT ![t] = [me EXCEPT !.pc = "task_done"]]
    /\ UNCHANGED <<wiki, call, writeout, TERM, MAX_LEVEL, NUM_LINKS, requests_input_queue,
                   unfinished_tasks, heap, cstate, recievedarticles>>

\* Put that puts the article twice
Put_twice(t) ==
    /\ threads[t].pc = "put"
    /\ LET me == threads[t]
       IN  /\ requests_output_queue' =
                 Append(Append(requests_output_queue, me.articles[me.k]), me.articles[me.k])
           /\ threads' = [threads EXCEPT ![t] =
                 IF me.k < Len(me.articles) THEN [me EXCEPT !.k = me.k + 1]
                 ELSE [me EXCEPT !.pc = "task_done"]]
    /\ UNCHANGED <<wiki, call, writeout, TERM, MAX_LEVEL, NUM_LINKS, requests_input_queue,
                   unfinished_tasks, heap, cstate, recievedarticles>>

\* lines 85-86: self._outputqueue.put(article), one article at a time; after
\* the last one the thread is at task_done
Put(t) ==
    /\ threads[t].pc = "put"
    /\ LET me == threads[t]
       IN  /\ requests_output_queue' = Append(requests_output_queue, me.articles[me.k])
           /\ threads' = [threads EXCEPT ![t] =
                 IF me.k < Len(me.articles) THEN [me EXCEPT !.k = me.k + 1]
                 ELSE [me EXCEPT !.pc = "task_done"]]
    /\ UNCHANGED <<wiki, call, writeout, TERM, MAX_LEVEL, NUM_LINKS, requests_input_queue,
                   unfinished_tasks, heap, cstate, recievedarticles>>

\* line 88: self._inputqueue.task_done()
TaskDone(t) ==
    /\ threads[t].pc = "task_done"
    /\ unfinished_tasks' = unfinished_tasks - 1
    /\ threads' = [threads EXCEPT ![t] = IdleThread]
    /\ UNCHANGED <<wiki, call, writeout, TERM, MAX_LEVEL, NUM_LINKS, requests_input_queue,
                   requests_output_queue, heap, cstate, recievedarticles>>

-----------------------------------------------------------------------------
(* The event loop of the main thread *)

\* ExpandLevel with <= for <
ExpandLevel_mut(level) == level <= MAX_LEVEL

\* line 342
ExpandLevel(level) == level < MAX_LEVEL

\* RecordArticle that forgets the article
RecordArticle_mut(articles, article) == articles

\* line 348: recievedarticles.append(article)
RecordArticle(articles, article) == Append(articles, article)

\* lines 332-348: an article arrives within the timeout
ArticleArrives ==
    /\ cstate = "Running"
    /\ requests_output_queue # <<>>
    /\ LET article == Head(requests_output_queue)
           parsed == [heap EXCEPT ![article] = parse(@)]
           level == get_level(article)
       IN  /\ requests_output_queue' = Tail(requests_output_queue)
           /\ heap' = parsed
           /\ IF missing(heap[article])
                 THEN UNCHANGED <<requests_input_queue, unfinished_tasks, cstate,
                                  recievedarticles>>
              ELSE IF ~ExpandLevel(level)
                 THEN /\ recievedarticles' = RecordArticle(recievedarticles, article)
                      /\ UNCHANGED <<requests_input_queue, unfinished_tasks, cstate>>
              ELSE IF level + 1 \notin DOMAIN NUM_LINKS
                 THEN /\ cstate' = "Aborted"      \* IndexError in the main thread
                      /\ UNCHANGED <<requests_input_queue, unfinished_tasks, recievedarticles>>
              ELSE LET links == get_links(parsed[article], NUM_LINKS[level + 1])
                       items == feed_titles(links, article)
                   IN  /\ requests_input_queue' = requests_input_queue \o items
                       /\ unfinished_tasks' = unfinished_tasks + Len(items)
                       /\ recievedarticles' = RecordArticle(recievedarticles, article)
                       /\ cstate' = cstate
    /\ UNCHANGED <<wiki, call, writeout, TERM, MAX_LEVEL, NUM_LINKS, threads>>

\* line 349: requests_output_queue.get(timeout=3) raises Queue.Empty
Timeout ==
    /\ cstate = "Running"
    /\ requests_output_queue = <<>>
    /\ cstate' = "Draining"
    /\ UNCHANGED <<wiki, call, writeout, TERM, MAX_LEVEL, NUM_LINKS, requests_input_queue,
                   unfinished_tasks, requests_output_queue, heap, threads,
                   recievedarticles>>

\* JoinReturns that does not wait for the unfinished tasks
JoinReturns_mut ==
    /\ cstate = "Draining"
    /\ cstate' = "Joined"
    /\ UNCHANGED <<wiki, call, writeout, TERM, MAX_LEVEL, NUM_LINKS, requests_input_queue,
                   unfinished_tasks, requests_output_queue, heap, threads,
                   recievedarticles>>

\* line 351: requests_input_queue.join() returns
JoinReturns ==
    /\ cstate = "Draining"
    /\ unfinished_tasks = 0
    /\ cstate' = "Joined"
    /\ UNCHANGED <<wiki, call, writeout, TERM, MAX_LEVEL, NUM_LINKS, requests_input_queue,
                   unfinished_tasks, requests_output_queue, heap, threads,
                   recievedarticles>>

\* lines 354-356: done when the output queue is empty, else loop again
CheckEmpty ==
    /\ cstate = "Joined"
    /\ cstate' = IF requests_output_queue = <<>> THEN "Done" ELSE "Running"
    /\ UNCHANGED <<wiki, call, writeout, TERM, MAX_LEVEL, NUM_LINKS, requests_input_queue,
                   unfinished_tasks, requests_output_queue, heap, threads,
                   recievedarticles>>

-----------------------------------------------------------------------------
(* write_files and the write phase of the main thread *)

\* A path is the sequence of its segments (a segment holds no '/') and a
\* disk is the set of its directories and the text of each of its files.

\* one character of s.replace(" ", "_").replace('/', '-'); the suffix
\* " (disambiguation)" is one element of a title of the model
SlugChar(c) ==
    IF c = " " THEN "_"
    ELSE IF c = "/" THEN "-"
    ELSE IF c = " (disambiguation)" THEN "_(disambiguation)"
    ELSE c

\* s.replace(" ", "_").replace('/', '-')
Slug(s) == [i \in DOMAIN s |-> SlugChar(s[i])]

\* the characters of a link name: the link names of the model are single
\* characters, but for "A_2"
LinknameChars(linkname) ==
    IF linkname = "A_2" THEN <<"A", "_", "2">> ELSE <<linkname>>

EmptyDisk == [dirs |-> {}, files |-> <<>>]

\* os.path.isfile
isfile(d, filename) == filename \in DOMAIN d.files

\* os.path.isdir
isdir(d, foldername) == foldername \in d.dirs

\* os.mkdir
mkdir(d, foldername) == [d EXCEPT !.dirs = @ \cup {foldername}]

\* open(filename, 'w'); file.write(text); file.close()
WriteFile(d, filename, text) ==
    [d EXCEPT !.files = IF filename \in DOMAIN @ THEN [@ EXCEPT ![filename] = text]
                        ELSE @ @@ (filename :> text)]

\* the text written for an article that was never found
DoesNotExist == <<"DOES NOT EXIST">>

\* the empty file open(filename, 'w') leaves when nothing is written
EmptyText == <<>>

\* the state a call of write_files starts in: no exception, the disk, and
\* no file written yet
StartWrite(d) == [exc |-> "none", filename |-> <<>>, disk |-> d, trace |-> <<>>]

\* an exception leaves write_files
Fail(w, exc, filename) == [w EXCEPT !.exc = exc, !.filename = filename]

\* lines 158-159 and 189-190: os.mkdir raises OSError on an existing file
MakeDir(w, foldername) ==
    IF w.exc # "none" THEN w
    ELSE IF isdir(w.disk, foldername) THEN w
    ELSE IF isfile(w.disk, foldername) THEN Fail(w, "OSError", foldername)
    ELSE [w EXCEPT !.disk = mkdir(@, foldername)]

\* lines 155-156 and 192-193
CheckExists(w, overwrite, filename) ==
    IF w.exc # "none" THEN w
    ELSE IF ~overwrite /\ isfile(w.disk, filename) THEN Fail(w, "FileExistsErr", filename)
    ELSE w

\* lines 161-163 and 196-201: open raises IOError on a directory; encoding
\* a plaintext that is None raises AttributeError after the file was opened
WriteText(w, filename, text) ==
    IF w.exc # "none" THEN w
    ELSE IF isdir(w.disk, filename) THEN Fail(w, "IOError", filename)
    ELSE IF text = None
        THEN [Fail(w, "AttributeError", filename) EXCEPT
                !.disk = WriteFile(@, filename, EmptyText)]
    ELSE [w EXCEPT !.disk = WriteFile(@, filename, text[1]),
                   !.trace = Append(@, filename)]

\* lines 176-179: the folder of the i-th article (from 1) of a link name
Foldername(path, normlinkname, i) ==
    IF i = 1 THEN Append(path, normlinkname)
    ELSE Append(path, normlinkname \o <<"_", ToString(i)>>)

\* lines 153 and 186: u'{}/{}.txt'.format(foldername, title)
Filename(foldername, title) == Append(foldername, title \o <<".txt">>)

RECURSIVE write_files(_, _, _, _, _)
RECURSIVE WriteChildren(_, _, _, _, _, _, _, _)

\* lines 171-203: the children of article, the link names in the order
\* keys of the dict's iteration, from the i-th article of the n-th link name
WriteChildren(article, overwrite, path, keys, n, i, w, order) ==
    IF w.exc # "none" \/ n > Len(keys) THEN w
    ELSE LET children == heap[article].children[keys[n]]
         IN  IF i > Len(children)
                THEN WriteChildren(article, overwrite, path, keys, n + 1, 1, w, order)
             ELSE LET normlinkname == Slug(LinknameChars(keys[n]))
                      foldername == Foldername(path, normlinkname, i)
                      child == heap[children[i]]
                      title == IF missing(child) THEN Slug(child.search_title)
                               ELSE Slug(child.title[1])
                      filename == Filename(foldername, title)
                      text == IF missing(child) THEN Some(DoesNotExist)
                              ELSE child.plaintext
                      w1 == WriteText(CheckExists(MakeDir(w, foldername), overwrite,
                                                  filename),
                                      filename, text)
                      w2 == write_files(children[i], overwrite, foldername, w1, order)
                  IN  WriteChildren(article, overwrite, path, keys, n, i + 1, w2, order)

\* write_files(article, overwrite, path), started in w; order[a] is the
\* order in which the dict heap[a].children is iterated
write_files(article, overwrite, path, w, order) ==
    IF w.exc # "none" THEN w
    ELSE IF heap[article].parent = NoParent
        THEN LET title == Slug(heap[article].title[1])
                 foldername == <<title>>
                 filename == Filename(foldername, title)
                 w1 == WriteText(MakeDir(CheckExists(w, overwrite, filename), foldername),
                                 filename, heap[article].plaintext)
             IN  WriteChildren(article, overwrite, <<title>>, order[article], 1, 1, w1, order)
    ELSE WriteChildren(article, overwrite, path, order[article], 1, 1, w, order)

\* the write phase has not begun
NoWrite ==
    [pc |-> "none", overwrite |-> FALSE, order |-> <<>>, before |-> EmptyDisk,
     disk |-> EmptyDisk, exc |-> "none", filename |-> <<>>, trace |-> <<>>,
     printed |-> <<>>]

\* the iteration orders of the children dicts of the articles 1..n
RECURSIVE ChildrenOrders(_)
ChildrenOrders(n) ==
    IF n = 0 THEN {<<>>}
    ELSE {Append(o, keys) : o \in ChildrenOrders(n - 1),
                            keys \in Perms(DOMAIN heap[n].children)}

\* the text of a file that is on the disk before the run
OldText == <<"old">>

\* a disk that holds the file filename, in its folders
DiskWith(filename) ==
    [dirs |-> {SubSeq(filename, 1, k) : k \in 1..(Len(filename) - 1)},
     files |-> (filename :> OldText)]

\* the file of the root article of the term
RootFile(term) ==
    Filename(<<Slug(term \o Disambig)>>, Slug(term \o Disambig))

\* the disks the write phase may find: nothing, or one of the files that
\* write_files is about to write
Disks(root, order) ==
    IF root = NoParent THEN {EmptyDisk}
    ELSE {EmptyDisk} \cup
         {DiskWith(filename) :
             filename \in Range(write_files(root, TRUE, <<>>, StartWrite(EmptyDisk),
                                            order).trace)}

\* the characters that the ascii codec does not encode
NonAscii == {"U+00E9"}

\* 'File exists: {}\n'.format(e.filename): a str formatted with a unicode
\* argument encodes the argument with the ascii codec, which raises
\* UnicodeEncodeError on any other character
FormatFileExists(filename) ==
    IF \E k \in DOMAIN filename : \E i \in DOMAIN filename[k] : filename[k][i] \in NonAscii
        THEN [raised |-> TRUE, value |-> <<>>]
        ELSE [raised |-> FALSE, value |-> <<"File exists">>]

\* lines 366-370: the first received article without parent
FindRoot ==
    LET at == {i \in DOMAIN recievedarticles :
                  heap[recievedarticles[i]].parent = NoParent}
    IN  IF at = {} THEN NoParent ELSE recievedarticles[Min(at)]

\* NotFound that never holds: write_files is called whatever was received
NotFound_mut == FALSE

\* line 362
NotFound == Len(recievedarticles) = 0

\* lines 361-377, after the event loop has ended.  args.overwrite and the
\* files on the disk are read here for the first time and are drawn here.
\* printed ends with "File exists" when the path in filename was printed
\* after it; exc is the exception that ended the phase (FileExistsErr is
\* caught, any other one ends the main thread).
WritePhase ==
    /\ cstate = "Done"
    /\ cstate' = "Exited"
    /\ IF NotFound
          THEN \E before \in {EmptyDisk, DiskWith(RootFile(TERM))} :
                  writeout' = [NoWrite EXCEPT
                                 !.pc = "notfound", !.before = before, !.disk = before,
                                 !.printed = <<"No disambiguation page was found">>]
       ELSE \E overwrite \in BOOLEAN, order \in ChildrenOrders(Len(heap)) :
            \E before \in Disks(FindRoot, order) :
               LET w == IF FindRoot = NoParent
                           THEN Fail(StartWrite(before), "AttributeError", <<>>)
                        ELSE write_files(FindRoot, overwrite, <<>>, StartWrite(before),
                                         order)
                   report == FormatFileExists(w.filename)
               IN  writeout' =
                      [pc |-> "write_files", overwrite |-> overwrite, order |-> order,
                       before |-> before, disk |-> w.disk,
                       exc |-> IF w.exc = "FileExistsErr" /\ report.raised
                                  THEN "UnicodeEncodeError" ELSE w.exc,
                       filename |-> w.filename, trace |-> w.trace,
                       printed |-> IF w.exc = "FileExistsErr"
                                      THEN <<"Writing files ...">> \o report.value
                                   ELSE <<"Writing files ...">>]
    /\ UNCHANGED <<wiki, call, TERM, MAX_LEVEL, NUM_LINKS, requests_input_queue,
                   unfinished_tasks, requests_output_queue, heap, threads,
                   recievedarticles>>

-----------------------------------------------------------------------------
(* The crawl *)

NoCall == [pc |-> "none"]

Init ==
    /\ wiki = CrawlWiki
    /\ call = NoCall
    /\ TERM \in Terms
    /\ MAX_LEVEL \in 0..MaxLevels
    /\ \E ndl \in NdlChoices, npl \in NplChoices :
            NUM_LINKS = MakeNumLinks(ndl, npl, MAX_LEVEL)
    /\ requests_input_queue = feed_disambig_title(TERM)
    /\ unfinished_tasks = 1
    /\ requests_output_queue = <<>>
    /\ heap = <<>>
    /\ threads = [t \in Threads |-> IdleThread]
    /\ cstate = "Running"
    /\ recievedarticles = <<>>
    /\ writeout = NoWrite

Next ==
    \/ \E t \in Threads : Get(t)
    \/ \E t \in Threads : Request(t)
    \/ \E t \in Threads : Attach(t)
    \/ \E t \in Threads : Put(t)
    \/ \E t \in Threads : TaskDone(t)
    \/ ArticleArrives
    \/ Timeout
    \/ JoinReturns
    \/ CheckEmpty
    \/ WritePhase

Spec == Init /\ [][Next]_vars

-----------------------------------------------------------------------------
(* The crawl under the scheduling of the threads: every live thread and the
   event loop of the main thread keep being scheduled *)

ThreadStep(t) == Get(t) \/ Request(t) \/ Attach(t) \/ Put(t) \/ TaskDone(t)

MainStep == ArticleArrives \/ Timeout \/ JoinReturns \/ CheckEmpty

FairSpec ==
    /\ Init
    /\ [][Next]_vars
    /\ \A t \in Threads : WF_vars(ThreadStep(t))
    /\ WF_vars(MainStep)

\* the fairly scheduled runs of the crawl for the term "k"
InitK == Init /\ TERM = <<"k">>

FairSpecK ==
    /\ InitK
    /\ [][Next]_vars
    /\ \A t \in Threads : WF_vars(ThreadStep(t))
    /\ WF_vars(MainStep)

-----------------------------------------------------------------------------
(* The resolver called directly, against every small backend *)

ResolverTitles == {<<"a">>, <<"N">>, <<"T">>}

ResolverFragments == {<<"s">>, <<"z">>}

ResolverPageids == (<<"a">> :> 1 @@ <<"N">> :> 2 @@ <<"T">> :> 3)

\* normalization maps: a normalized title is not normalized again
ResolverNorms == UNION {[D -> ResolverTitles \ D] : D \in SUBSET ResolverTitles}

\* redirect maps from normalized titles, resolved by the backend to titles
\* that are not redirects, with or without a fragment
ResolverRedirects(norms) ==
    LET canon == ResolverTitles \ DOMAIN norms
    IN  UNION {[D -> [to : canon \ D,
                      tofragment : {None} \cup {Some(f) : f \in ResolverFragments}]]
               : D \in SUBSET canon}

\* every backend over ResolverTitles: any of the pages that are neither
\* normalized away nor redirects may exist; an existing page has the
\* sections "i" and "s"
ResolverWikis ==
    {[norms |-> n, redirects |-> r,
      pageids |-> [T \in E |-> ResolverPageids[T]],
      sections |-> [T \in E |-> << <<"i">>, <<"s">> >>],
      links |-> <<>>]
     : <<n, r, E>> \in
        {x \in ResolverNorms \X (UNION {ResolverRedirects(n) : n \in ResolverNorms})
                \X SUBSET ResolverTitles :
            /\ x[2] \in ResolverRedirects(x[1])
            /\ x[3] \subseteq (ResolverTitles \ (DOMAIN x[1] \cup DOMAIN x[2]))}}

\* the batches: lists of distinct titles
ResolverBatches == UNION {Perms(S) : S \in SUBSET ResolverTitles}

NoCrawl ==
    /\ TERM = <<>>
    /\ MAX_LEVEL = 0
    /\ NUM_LINKS = <<None>>
    /\ requests_input_queue = <<>>
    /\ unfinished_tasks = 0
    /\ requests_output_queue = <<>>
    /\ heap = <<>>
    /\ threads = [t \in Threads |-> IdleThread]
    /\ cstate = "NotStarted"
    /\ recievedarticles = <<>>
    /\ writeout = NoWrite

ResolverInit ==
    /\ wiki \in ResolverWikis
    /\ call = NoCall
    /\ NoCrawl

CallGetArticles ==
    /\ \E search_titles \in ResolverBatches, section \in {None, Some(0)} :
          call' = [pc |-> "get_articles", search_titles |-> search_titles,
                   section |-> section, ret |-> get_articles(search_titles, section)]
    /\ UNCHANGED <<wiki, crawlvars>>

CallGetArticleFragment ==
    /\ \E articletitle \in ResolverTitles, fragmenttitle \in ResolverFragments :
          call' = [pc |-> "get_article_fragment", articletitle |-> articletitle,
                   fragmenttitle |-> fragmenttitle,
                   ret |-> get_article_fragment(articletitle, fragmenttitle)]
    /\ UNCHANGED <<wiki, crawlvars>>

ResolverNext == CallGetArticles \/ CallGetArticleFragment

ResolverSpec == ResolverInit /\ [][ResolverNext]_vars

-----------------------------------------------------------------------------
(* Properties of the crawl *)

Articles == DOMAIN heap

\* the articles the event loop has expanded, and the links it took from each
Expanded == {a \in Range(recievedarticles) : get_level(a) < MAX_LEVEL}

Taken(p) == get_links(heap[p], NUM_LINKS[get_level(p) + 1])

\* the search title a request of parent p is resolved under
RequestKey(p, title) ==
    IF find_hash(title) = 0 THEN heap[p].title[1] \o title ELSE title

Occurrences(p, r) == {i \in DOMAIN Taken(p) : Taken(p)[i] = r}

SameChunk(i, j) == (i - 1) \div chunk_num = (j - 1) \div chunk_num

\* the positions of children[linkname] of p that hold an article requested as r
EntriesFor(p, r) ==
    IF r[1] \notin DOMAIN heap[p].children THEN {}
    ELSE {n \in DOMAIN heap[p].children[r[1]] :
            heap[heap[p].children[r[1]][n]].search_title = RequestKey(p, r[2])}

\* the two requests r of p gave two list entries that are one Article
TwoEntriesOneArticle(p, r) ==
    /\ Cardinality(EntriesFor(p, r)) = 2
    /\ \A m, n \in EntriesFor(p, r) :
          heap[p].children[r[1]][m] = heap[p].children[r[1]][n]

AllIdle == \A t \in Threads : threads[t].pc = "get"

RunAborted == cstate = "Aborted"

\* C1: the main thread is Done only when no queue item is unfinished (none
\* queued, none held by a thread) and the output queue is empty; and a
\* timeout with unfinished items is never followed directly by Done.
C1_DoneOnlyWhenIdle ==
    /\ [](cstate = "Done" =>
            /\ unfinished_tasks = 0
            /\ requests_input_queue = <<>>
            /\ AllIdle
            /\ requests_output_queue = <<>>)
    /\ [][cstate = "Running" /\ unfinished_tasks > 0 => cstate' # "Done"]_vars
    /\ [][cstate = "Draining" /\ unfinished_tasks > 0 => cstate' = "Draining"]_vars

\* C1 witness: the loop timed out while an item was unfinished and a thread
\* was about to put an article
C1_Witness ==
    /\ cstate = "Draining"
    /\ unfinished_tasks > 0
    /\ \E t \in Threads : threads[t].pc = "put" /\ threads[t].parent # NoParent

\* C2: every fairly scheduled run ends Done or aborted.
C2_Terminates == <>(cstate = "Done" \/ RunAborted)

\* a thread holds a queue item without parent that has a title "#section"
InvalidFragmentDequeued ==
    \E t \in Threads :
        /\ threads[t].pc = "request"
        /\ threads[t].parent = NoParent
        /\ \E i \in DOMAIN threads[t].linkname_title :
              find_hash(threads[t].linkname_title[i][2]) = 0

\* C3: a "#section" request without parent, once dequeued, leads to the run
\* being aborted.
C3_InvalidFragmentAborts == InvalidFragmentDequeued ~> RunAborted

\* C4: no queue item, queued or held by a thread, has a parent at level
\* MAX_LEVEL or deeper; no article is deeper than MAX_LEVEL; with MAX_LEVEL 0
\* there is at most the root article and no item with a parent.
C4_DepthBound ==
    /\ \A i \in DOMAIN requests_input_queue :
          requests_input_queue[i].parent # NoParent
              => get_level(requests_input_queue[i].parent) < MAX_LEVEL
    /\ \A t \in Threads :
          threads[t].parent # NoParent => get_level(threads[t].parent) < MAX_LEVEL
    /\ \A a \in Articles : get_level(a) <= MAX_LEVEL
    /\ MAX_LEVEL = 0 =>
          /\ Len(heap) <= 1
          /\ \A i \in DOMAIN requests_input_queue :
                requests_input_queue[i].parent = NoParent
          /\ \A t \in Threads : threads[t].parent = NoParent

\* C4 witness: the crawl is done and an article at level MAX_LEVEL that has
\* links was not expanded
C4_Witness ==
    /\ cstate = "Done"
    /\ MAX_LEVEL > 0
    /\ \E a \in Range(recievedarticles) :
          /\ get_level(a) = MAX_LEVEL
          /\ heap[a].links # None
          /\ heap[a].links[1] # <<>>

\* C5 as claimed: at Done, a request that a parent's list holds twice, at any
\* two positions, gave two entries of children[linkname] that are one Article.
C5_DuplicateAnywhere ==
    cstate = "Done" =>
        \A p \in Expanded : \A r \in Range(Taken(p)) :
            Cardinality(Occurrences(p, r)) = 2 => TwoEntriesOneArticle(p, r)

\* C5 amended: at Done, a request that a parent's list holds twice, both in
\* one chunk of chunk_num requests, gave two entries of children[linkname]
\* that are one Article.
C5_DuplicateInChunk ==
    cstate = "Done" =>
        \A p \in Expanded : \A r \in Range(Taken(p)) :
            (/\ Cardinality(Occurrences(p, r)) = 2
             /\ \A i, j \in Occurrences(p, r) : SameChunk(i, j))
                => TwoEntriesOneArticle(p, r)

\* C5 witness: the crawl is done and a parent's list held one request twice
\* in one chunk
C5_Witness ==
    /\ cstate = "Done"
    /\ \E p \in Expanded : \E r \in Range(Taken(p)) :
          /\ Cardinality(Occurrences(p, r)) = 2
          /\ \A i, j \in Occurrences(p, r) : SameChunk(i, j)
          /\ TwoEntriesOneArticle(p, r)

\* C9: every article in a list of p.children has parent p.
C9_ChildrenHaveParent ==
    \A p \in Articles : \A linkname \in DOMAIN heap[p].children :
        \A n \in DOMAIN heap[p].children[linkname] :
            heap[heap[p].children[linkname][n]].parent = p

\* C9 witness: one article is listed under two link names of its parent,
\* and another article has children too
C9_Witness ==
    \E p, q \in Articles :
        /\ p # q
        /\ DOMAIN heap[q].children # {}
        /\ \E l1, l2 \in DOMAIN heap[p].children :
              /\ l1 # l2
              /\ Range(heap[p].children[l1]) \cap Range(heap[p].children[l2]) # {}

\* C10: at Done exactly one article has no parent.
C10_OneRoot ==
    cstate = "Done" => Cardinality({a \in Articles : heap[a].parent = NoParent}) = 1

\* C10 witness: the crawl is done with articles at level 2
C10_Witness ==
    /\ cstate = "Done"
    /\ \E a \in Articles : get_level(a) = 2

-----------------------------------------------------------------------------
(* Properties of the resolver *)

GetArticlesReturned == call.pc = "get_articles" /\ ~call.ret.raised

\* the title the backend normalizes t to
Normalized(t) == IF t \in DOMAIN wiki.norms THEN wiki.norms[t] ELSE t

\* the answer's page whose title is T
Payload(T) ==
    CHOOSE p \in wikirequest_query(call.search_titles, call.section).pages : p.title = T

C7_ChainResolves ==
    GetArticlesReturned =>
        \A i \in DOMAIN call.search_titles :
            LET A == call.search_titles[i]
                N == Normalized(A)
                record == call.ret.value[i]
            IN  (N \in DOMAIN wiki.redirects => wiki.redirects[N].tofragment = None) =>
                    /\ record.search_title = A
                    /\ record.title = Some(FinalTitle(A))
                    /\ record.pageid = Some(Payload(FinalTitle(A)).pageid)
                    /\ record.wikitext = Payload(FinalTitle(A)).revisions

\* C7 witness: A is normalized to N, N redirects to the existing T, and A, N
\* and T were resolved in one batch to T's id and content
C7_Witness ==
    /\ GetArticlesReturned
    /\ Len(call.search_titles) = 3
    /\ \E i \in DOMAIN call.search_titles :
          LET A == call.search_titles[i]
          IN  /\ A \in DOMAIN wiki.norms
              /\ wiki.norms[A] \in DOMAIN wiki.redirects
              /\ wiki.redirects[wiki.norms[A]].tofragment = None
              /\ FinalTitle(A) \in DOMAIN wiki.pageids
              /\ \A j \in DOMAIN call.ret.value :
                    /\ call.ret.value[j].pageid = Some(wiki.pageids[FinalTitle(A)])
                    /\ call.ret.value[j].wikitext # None

\* search title i redirects to a fragment that the section table of the
\* existing target does not list
RedirectsToAbsentFragment(i) ==
    LET N == Normalized(call.search_titles[i])
    IN  /\ N \in DOMAIN wiki.redirects
        /\ wiki.redirects[N].tofragment # None
        /\ wiki.redirects[N].to \in DOMAIN wiki.pageids
        /\ FindSection(wiki.sections[wiki.redirects[N].to],
                       wiki.redirects[N].tofragment[1]) = None

\* search title j redirects to a fragment of a page that does not exist
RedirectsToFragmentOfMissing(j) ==
    LET N == Normalized(call.search_titles[j])
    IN  /\ N \in DOMAIN wiki.redirects
        /\ wiki.redirects[N].tofragment # None
        /\ wiki.redirects[N].to \notin DOMAIN wiki.pageids

-----------------------------------------------------------------------------
(* Properties of the tree and of the event loop *)

\* the parents of the queue items, queued or held by a thread
ItemParents ==
    {requests_input_queue[i].parent : i \in DOMAIN requests_input_queue}
        \cup {threads[t].parent : t \in {u \in Threads : threads[u].pc # "get"}}

\* C11: an article with a negative id has no content, no links and no
\* children, in every state; and no queue item, queued or held by a thread,
\* has such an article as its parent.
C11_MissingIsLeaf ==
    /\ \A a \in Articles :
          missing(heap[a]) =>
              /\ heap[a].wikitext = None
              /\ heap[a].links = None
              /\ DOMAIN heap[a].children = {}
    /\ \A p \in ItemParents \ {NoParent} : ~missing(heap[p])

\* C11 witness: the crawl is done and the tree holds a missing article got
\* from a payload marked missing and one got from an absent fragment, both
\* taken off the output queue by the event loop
C11_Witness ==
    /\ cstate = "Done"
    /\ \E a, b \in Articles :
          /\ missing(heap[a]) /\ heap[a].title # None /\ heap[a].parent # NoParent
          /\ missing(heap[b]) /\ heap[b].title = None /\ heap[b].parent # NoParent

\* the articles from the root down to a, along the parent references
RECURSIVE PathTo(_)
PathTo(a) ==
    IF heap[a].parent = NoParent THEN <<a>> ELSE Append(PathTo(heap[a].parent), a)

\* the name get_hierarchy is to show for the article page on the path of a:
\* the title of an ancestor, and for a itself its title or, when it has
\* none, its search title
PathName(a, page) ==
    IF page = a /\ heap[a].title = None THEN heap[a].search_title
    ELSE heap[page].title[1]

\* C12: the level of an article is the number of parent references up to
\* the root (0 for the root), and its hierarchy is the level + 1 names from
\* the root down to it, joined by " --> ".
C12_LevelAndHierarchy ==
    \A a \in Articles :
        LET path == PathTo(a)
            level == get_level(a)
            hierarchy == get_hierarchy(a)
        IN  /\ level = Len(path) - 1
            /\ heap[a].parent = NoParent => level = 0
            /\ ~hierarchy.raised
            /\ hierarchy.value = Join([k \in DOMAIN path |-> PathName(a, path[k])], Arrow)
            /\ Cardinality({i \in DOMAIN hierarchy.value : hierarchy.value[i] = " --> "})
                  = level

\* C12 witness: an article without title two parents below the root, whose
\* hierarchy is "m (disambiguation) --> F --> Q", and a titled one beside it
C12_Witness ==
    \E a, b \in Articles :
        /\ get_level(a) = 2
        /\ heap[a].title = None
        /\ get_hierarchy(a).value = PageM \o Arrow \o PageF \o Arrow \o <<"Q">>
        /\ get_level(b) = 2
        /\ heap[b].title # None
        /\ get_hierarchy(b).value =
              PageM \o Arrow \o PageF \o Arrow \o heap[b].title[1]

-----------------------------------------------------------------------------
(* Properties of the write phase *)

\* the files write_files writes for the tree, in order, when nothing stops it
FullTrace ==
    write_files(FindRoot, TRUE, <<>>, StartWrite(EmptyDisk), writeout.order).trace

\* the files that were on the disk before the write phase
OldFiles == DOMAIN writeout.before.files

\* the text of the file filename is the text of an article that the file
\* is named after: its plaintext, or DOES NOT EXIST when it is missing
HoldsArticleText(filename) ==
    \E a \in Articles :
        LET name == IF missing(heap[a]) THEN heap[a].search_title ELSE heap[a].title[1]
        IN  /\ filename[Len(filename)] = Slug(name) \o <<".txt">>
            /\ writeout.disk.files[filename] =
                  IF missing(heap[a]) THEN DoesNotExist ELSE heap[a].plaintext[1]

\* C13: when write_files runs without overwrite and a file it is to write
\* exists, the phase ends with FileExistsErr for that file, prints "File
\* exists" with its path, leaves the file as it was and has written only the
\* files that come before it; with overwrite it writes every file and each
\* file holds the text of its article.
C13_CollisionPolicy ==
    writeout.pc = "write_files" =>
        /\ (~writeout.overwrite /\ OldFiles # {}) =>
              /\ writeout.filename \in OldFiles
              /\ writeout.exc = "FileExistsErr"
              /\ writeout.printed = <<"Writing files ...", "File exists">>
              /\ writeout.disk.files[writeout.filename] = OldText
              /\ DOMAIN writeout.disk.files = OldFiles \cup Range(writeout.trace)
              /\ writeout.trace = SubSeq(FullTrace, 1, Len(writeout.trace))
              /\ FullTrace[Len(writeout.trace) + 1] = writeout.filename
        /\ writeout.overwrite =>
              /\ writeout.exc = "none"
              /\ writeout.trace = FullTrace
              /\ \A filename \in Range(FullTrace) : HoldsArticleText(filename)

\* whether an article without parent that is not missing was created
RootProduced == \E a \in Articles : heap[a].parent = NoParent /\ ~missing(heap[a])

\* C14: when the run has ended normally, write_files was called if and only
\* if an article without parent that is not missing was created, and then on
\* that article; when the only article is missing, the run printed the
\* not-found message and the disk is as it was.
C14_WriteIffRoot ==
    cstate = "Exited" =>
        /\ writeout.pc = "write_files" <=> RootProduced
        /\ writeout.pc = "write_files" =>
              /\ FindRoot # NoParent
              /\ ~missing(heap[FindRoot])
              /\ writeout.trace # <<>> \/ writeout.exc # "none"
        /\ ~RootProduced =>
              /\ writeout.pc = "notfound"
              /\ writeout.printed = <<"No disambiguation page was found">>
              /\ writeout.disk = writeout.before
              /\ writeout.trace = <<>>

\* C14 witness: the seed page was missing, the root's file was on the disk,
\* and the run ended with the not-found message
C14_Witness ==
    /\ cstate = "Exited"
    /\ Len(heap) = 1
    /\ missing(heap[1])
    /\ writeout.pc = "notfound"
    /\ writeout.before # EmptyDisk

-----------------------------------------------------------------------------
(* Properties of the threads *)

\* thread t holds a queue item: it has taken it and not yet called task_done
HoldsItem(t) == threads[t].pc \in {"request", "attach", "put", "task_done"}

\* C15: no two threads hold, at the same time, queue items of one parent.
C15_OneWorkerPerParent ==
    \A t, u \in Threads :
        (t # u /\ HoldsItem(t) /\ HoldsItem(u) /\ threads[t].parent # NoParent)
            => threads[t].parent # threads[u].parent

\* the requests with link name linkname among the links taken from p
RequestsNamed(p, linkname) ==
    LET Named(r) == r[1] = linkname
    IN  SelectSeq(Taken(p), Named)

\* C16: at Done, for every expanded article p and every link name, the
\* list children[linkname] of p has one entry per request with that link
\* name, and its i-th entry is the article of the i-th such request.
C16_ChildrenInRequestOrder ==
    cstate = "Done" =>
        \A p \in Expanded : \A linkname \in DOMAIN heap[p].children :
            LET requests == RequestsNamed(p, linkname)
                children == heap[p].children[linkname]
            IN  /\ Len(children) = Len(requests)
                /\ \A i \in DOMAIN children \cap DOMAIN requests :
                      heap[children[i]].search_title = RequestKey(p, requests[i][2])

\* s without the repetitions of its elements, first occurrences kept
RECURSIVE FirstOccurrences(_)
FirstOccurrences(s) ==
    IF s = <<>> THEN <<>>
    ELSE LET front == FirstOccurrences(SubSeq(s, 1, Len(s) - 1))
         IN  IF s[Len(s)] \in Range(front) THEN front ELSE Append(front, s[Len(s)])

\* the search titles of the requests of the item thread t holds, in order
RequestedTitles(t) ==
    [i \in DOMAIN threads[t].linkname_title |->
        IF threads[t].parent = NoParent THEN threads[t].linkname_title[i][2]
        ELSE RequestKey(threads[t].parent, threads[t].linkname_title[i][2])]

\* the search titles of the articles thread t has built, in the order in
\* which it puts them on the output queue
BuiltTitles(t) ==
    [n \in DOMAIN threads[t].articles |-> heap[threads[t].articles[n]].search_title]

\* C17: the articles a thread builds for a queue item, which it puts on the
\* output queue in that order, are in the order of the first occurrences of
\* their requests in the item.
C17_BuiltInRequestOrder ==
    \A t \in Threads :
        threads[t].pc \in {"attach", "put", "task_done"} =>
            BuiltTitles(t) = FirstOccurrences(RequestedTitles(t))

\* article a has the parent p and is in a list of p.children
Attached(a, p) ==
    /\ heap[a].parent = p
    /\ \E linkname \in DOMAIN heap[p].children : a \in Range(heap[p].children[linkname])

\* C18: a thread that puts articles of an item with a parent has attached
\* all of them before; an article comes onto the output queue only by the
\* thread that built it, the articles of an item one after the other from
\* the first; a thread comes to task_done only by putting the last article
\* of its item (or with no article at all); and unfinished_tasks goes down
\* only by one, by a thread at task_done.
C18_AttachPutTaskDone ==
    /\ [](\A t \in Threads :
            (threads[t].pc \in {"put", "task_done"} /\ threads[t].parent # NoParent)
                => \A n \in DOMAIN threads[t].articles :
                      Attached(threads[t].articles[n], threads[t].parent))
    /\ [][Len(requests_output_queue') > Len(requests_output_queue) =>
            \E t \in Threads :
                /\ threads[t].pc = "put"
                /\ requests_output_queue' =
                      Append(requests_output_queue, threads[t].articles[threads[t].k])
                /\ threads'[t].pc = "put" => threads'[t].k = threads[t].k + 1]_vars
    /\ [][\A t \in Threads :
            (threads[t].pc # "put" /\ threads'[t].pc = "put") => threads'[t].k = 1]_vars
    /\ [][\A t \in Threads :
            (threads[t].pc # "task_done" /\ threads'[t].pc = "task_done") =>
                \/ /\ threads[t].pc = "put"
                   /\ threads[t].k = Len(threads[t].articles)
                   /\ requests_output_queue' =
                         Append(requests_output_queue, threads[t].articles[threads[t].k])
                \/ /\ threads[t].pc = "request"
                   /\ threads'[t].articles = <<>>]_vars
    /\ [][unfinished_tasks' < unfinished_tasks =>
            /\ unfinished_tasks' = unfinished_tasks - 1
            /\ \E t \in Threads : threads[t].pc = "task_done" /\ threads'[t].pc = "get"]_vars

\* C18 witness: a thread has attached and put the two articles of an item
\* with a parent and is about to call task_done
C18_Witness ==
    \E t \in Threads :
        /\ threads[t].pc = "task_done"
        /\ threads[t].parent # NoParent
        /\ Len(threads[t].articles) = 2
        /\ \A n \in DOMAIN threads[t].articles :
              Attached(threads[t].articles[n], threads[t].parent)

\* the event loop takes the first article off the output queue
TakesArticle ==
    /\ requests_output_queue # <<>>
    /\ requests_output_queue' = Tail(requests_output_queue)

\* C20 as claimed: every article the event loop takes off the output queue
\* is appended to recievedarticles.
C20_EveryArrivalRecorded ==
    [][TakesArticle =>
          recievedarticles' = Append(recievedarticles, Head(requests_output_queue))]_vars

\* C20 amended: an article the event loop takes off the output queue is
\* appended to recievedarticles when it is not missing, whether or not it is
\* expanded, and recievedarticles stays as it is when the article is missing.
C20_ArrivalRecordedUnlessMissing ==
    [][TakesArticle =>
          recievedarticles' =
              IF missing(heap[Head(requests_output_queue)]) THEN recievedarticles
              ELSE Append(recievedarticles, Head(requests_output_queue))]_vars

\* C20 witness: the crawl is done; a missing article was taken and is not
\* recorded, and an expanded article and one that was not expanded are
C20_Witness ==
    /\ cstate = "Done"
    /\ \E a \in Articles : missing(heap[a]) /\ a \notin Range(recievedarticles)
    /\ \E b \in Range(recievedarticles) : get_level(b) < MAX_LEVEL
    /\ \E c \in Range(recievedarticles) : get_level(c) = MAX_LEVEL

\* C19: an output queue that holds an article is emptied again: the event
\* loop takes every article that was put; it is not Done while the queue
\* holds an article, and when join has returned and the queue holds an
\* article it goes back to Running, where it takes the article.
C19_PublishedIsConsumed ==
    /\ (requests_output_queue # <<>>) ~> (requests_output_queue = <<>>)
    /\ [](cstate = "Done" => requests_output_queue = <<>>)
    /\ [][(cstate = "Joined" /\ requests_output_queue # <<>>) => cstate' = "Running"]_vars

-----------------------------------------------------------------------------
(* Properties of the expansion *)

\* ss[1] \o ss[2] \o ...
RECURSIVE Concat(_)
Concat(ss) == IF ss = <<>> THEN <<>> ELSE ss[1] \o Concat(Tail(ss))

\* the queue items that the step puts on the input queue
Fed ==
    SubSeq(requests_input_queue', Len(requests_input_queue) + 1,
           Len(requests_input_queue'))

\* the request lists of the items that the step puts on the input queue
FedRequests == [i \in DOMAIN Fed |-> Fed[i].linkname_title]

\* the first min(budget, Len(links)) links; all of them with no budget
WithinBudget(links, budget) ==
    IF budget = None THEN links
    ELSE IF budget[1] < Len(links) THEN SubSeq(links, 1, budget[1])
    ELSE links

\* C21: NUM_LINKS has an entry for every level below MAX_LEVEL, one budget
\* for all levels from 1 on, and the lookup never fails; when the event loop
\* takes an article that is not missing at a level L below MAX_LEVEL, the
\* items it puts on the input queue all have that article as parent and
\* their requests, in order, are the first min(NUM_LINKS[L], number of
\* links) links of the article (all links with no budget); when it takes any
\* other article it puts nothing; and nothing else puts an item.
C21_LinkBudget ==
    /\ [](/\ cstate # "Aborted"
          /\ \A L \in 0..(MAX_LEVEL - 1) :
                /\ L + 1 \in DOMAIN NUM_LINKS
                /\ L >= 1 => NUM_LINKS[L + 1] = NUM_LINKS[2])
    /\ [][TakesArticle =>
            LET article == Head(requests_output_queue)
                level == get_level(article)
            IN  IF ~missing(heap[article]) /\ level < MAX_LEVEL
                   THEN /\ \A i \in DOMAIN Fed : Fed[i].parent = article
                        /\ Concat(FedRequests) =
                              WithinBudget(wiki.links[heap[article].wikitext[1]],
                                           NUM_LINKS[level + 1])
                   ELSE Fed = <<>>]_vars
    /\ [][Len(requests_input_queue') > Len(requests_input_queue) => TakesArticle]_vars

\* C21 witness: the crawl is done; of the 6 links of the root 3 were taken
\* and of the 3 links of an article at level 1 2 were taken, and each taken
\* link gave an entry in the children of its article
C21_Witness ==
    /\ cstate = "Done"
    /\ \E p, q \in Expanded :
          /\ get_level(p) = 0 /\ Len(heap[p].links[1]) = 6 /\ Len(Taken(p)) = 3
          /\ get_level(q) = 1 /\ Len(heap[q].links[1]) = 3 /\ Len(Taken(q)) = 2
          /\ \A a \in {p, q} :
                Cardinality({<<linkname, n>> \in (DOMAIN heap[a].children) \X (1..6) :
                                n \in DOMAIN heap[a].children[linkname]})
                    = Len(Taken(a))

\* the link names of the links taken from p
TakenLinknames(p) == {Taken(p)[i][1] : i \in DOMAIN Taken(p)}

\* the positions of the links taken from p that have the link name linkname
\* and are resolved under the search title key
RequestsFor(p, linkname, key) ==
    {i \in DOMAIN Taken(p) :
        Taken(p)[i][1] = linkname /\ RequestKey(p, Taken(p)[i][2]) = key}

\* the positions of children[linkname] of p whose article has the search
\* title key
EntriesUnder(p, linkname, key) ==
    {n \in DOMAIN heap[p].children[linkname] :
        heap[heap[p].children[linkname][n]].search_title = key}

\* C22: at Done, the children of an expanded article have exactly the link
\* names of the links taken from it; the list of a link name is as long as
\* the number of taken links with that link name, and holds as many
\* articles of a search title as there are taken links with that link name
\* and that title (plain, "Article#Section" or "#Section"); an article that
\* was not expanded has no children.
C22_AttachComplete ==
    cstate = "Done" =>
        /\ \A p \in Expanded :
              /\ DOMAIN heap[p].children = TakenLinknames(p)
              /\ \A linkname \in TakenLinknames(p) :
                    /\ Len(heap[p].children[linkname]) = Len(RequestsNamed(p, linkname))
                    /\ \A i \in DOMAIN Taken(p) :
                          LET key == RequestKey(p, Taken(p)[i][2])
                          IN  Cardinality(EntriesUnder(p, linkname, key))
                                 = Cardinality(RequestsFor(p, linkname, key))
        /\ \A a \in Articles \ Expanded : DOMAIN heap[a].children = {}

\* C22 witness: the crawl is done; the root took a link to "F#s" and links
\* to a plain title under two link names, and an article at level 1 took a
\* link to "#s"
C22_Witness ==
    /\ cstate = "Done"
    /\ \E p, q \in Expanded :
          /\ get_level(p) = 0
          /\ \E i, j, k \in DOMAIN Taken(p) :
                /\ find_hash(Taken(p)[i][2]) > 0
                /\ find_hash(Taken(p)[j][2]) = -1
                /\ Taken(p)[k][2] = Taken(p)[j][2]
                /\ Taken(p)[k][1] # Taken(p)[j][1]
          /\ get_level(q) = 1
          /\ \E i \in DOMAIN Taken(q) : find_hash(Taken(q)[i][2]) = 0

\* the queue items, queued or held by a thread
Items ==
    Range(requests_input_queue)
        \cup {[parent |-> threads[t].parent, linkname_title |-> threads[t].linkname_title] :
                t \in {u \in Threads : HoldsItem(u)}}

\* C23: every queue item, queued or held by a thread, has between 1 and
\* chunk_num requests; when the event loop feeds the links it takes from an
\* article, every item it puts has that article as parent and between 1 and
\* chunk_num requests, every item but the last has chunk_num, the requests
\* of the items in the order of the queue are the links taken, and for no
\* link nothing is put.
C23_Chunking ==
    /\ [](\A item \in Items :
            Len(item.linkname_title) >= 1 /\ Len(item.linkname_title) <= chunk_num)
    /\ [][(/\ TakesArticle
           /\ ~missing(heap[Head(requests_output_queue)])
           /\ get_level(Head(requests_output_queue)) < MAX_LEVEL) =>
            LET article == Head(requests_output_queue)
                request == get_links(parse(heap[article]),
                                     NUM_LINKS[get_level(article) + 1])
            IN  /\ requests_input_queue' = requests_input_queue \o Fed
                /\ Len(Fed) = (Len(request) + chunk_num - 1) \div chunk_num
                /\ request = <<>> => Fed = <<>>
                /\ \A i \in DOMAIN Fed :
                      /\ Fed[i].parent = article
                      /\ Len(Fed[i].linkname_title) \in 1..chunk_num
                      /\ i < Len(Fed) => Len(Fed[i].linkname_title) = chunk_num
                      /\ Fed[i].linkname_title =
                            SubSeq(request, (i - 1) * chunk_num + 1,
                                   (i - 1) * chunk_num + Len(Fed[i].linkname_title))]_vars

\* C23 witness: the 6 links of the root are on the queue as an item of 5
\* requests followed by an item of 1
C23_Witness ==
    /\ \E i \in DOMAIN requests_input_queue :
          /\ i + 1 \in DOMAIN requests_input_queue
          /\ requests_input_queue[i].parent # NoParent
          /\ requests_input_queue[i + 1].parent = requests_input_queue[i].parent
          /\ Len(requests_input_queue[i].linkname_title) = chunk_num
          /\ Len(requests_input_queue[i + 1].linkname_title) = 1

-----------------------------------------------------------------------------
(* Properties of the output queue *)

\* how often a is in the sequence s
Count(s, a) == Cardinality({i \in DOMAIN s : s[i] = a})

\* the articles thread t has built and not put on the output queue yet
Pending(t) ==
    IF threads[t].pc = "attach" THEN Range(threads[t].articles)
    ELSE IF threads[t].pc = "put"
        THEN {threads[t].articles[n] : n \in threads[t].k..Len(threads[t].articles)}
    ELSE {}

\* how often a is on the output queue or in recievedarticles
Arrived(a) == Count(requests_output_queue, a) + Count(recievedarticles, a)

\* a is in two lists of the children of its parent, and twice in one
Aliased(a) ==
    LET children == heap[heap[a].parent].children
    IN  /\ heap[a].parent # NoParent
        /\ \E l1, l2 \in DOMAIN children :
              /\ l1 # l2
              /\ Count(children[l1], a) >= 2
              /\ Count(children[l2], a) >= 1

\* C24: an article is on the output queue or in recievedarticles at most
\* once, and not at all while its thread has yet to put it; it is pending
\* in one thread only; a new article is pending, an old one never becomes
\* pending again; an article comes onto the output queue only once, by the
\* thread it is pending in, which then has it pending no more; the event
\* loop takes only articles it has neither parsed nor recorded before; and
\* at Done no article is pending, and every article that is not missing is
\* recorded and parsed once.
C24_PutOnce ==
    /\ [](\A a \in Articles :
            /\ Arrived(a) <= 1
            /\ heap[a].links # None => Count(requests_output_queue, a) = 0
            /\ \A t \in Threads :
                  a \in Pending(t) =>
                      /\ Arrived(a) = 0
                      /\ heap[a].links = None
                      /\ \A u \in Threads \ {t} : a \notin Pending(u))
    /\ [](cstate = "Done" =>
            \A a \in Articles :
                /\ \A t \in Threads : a \notin Pending(t)
                /\ Count(requests_output_queue, a) = 0
                /\ ~missing(heap[a]) =>
                      Count(recievedarticles, a) = 1 /\ heap[a].links # None)
    /\ [][\A a \in DOMAIN heap' :
            /\ a \notin DOMAIN heap => \E t \in Threads : a \in Pending(t)'
            /\ a \in DOMAIN heap =>
                  \A t \in Threads : a \in Pending(t)' => a \in Pending(t)
            /\ Count(requests_output_queue', a) > Count(requests_output_queue, a) =>
                  /\ Count(requests_output_queue', a) = 1
                  /\ \E t \in Threads :
                        /\ threads[t].pc = "put"
                        /\ a = threads[t].articles[threads[t].k]
                        /\ a \in Pending(t)
                        /\ a \notin Pending(t)']_vars
    /\ [][TakesArticle =>
            /\ heap[Head(requests_output_queue)].links = None
            /\ Head(requests_output_queue) \notin Range(recievedarticles)]_vars

\* C24 witness: the crawl is done; an article that is twice in one list of
\* its parent's children and once in another is recorded once
C24_Witness ==
    /\ cstate = "Done"
    /\ \E a \in Articles :
          /\ Aliased(a)
          /\ Count(recievedarticles, a) = 1

-----------------------------------------------------------------------------
(* Properties of the paths of write_files *)

\* C25: the files write_files writes for a tree are all different, and a
\* write phase that starts on an empty disk without overwrite does not end
\* with FileExistsErr.
C25_PathsUnique ==
    writeout.pc = "write_files" =>
        /\ LET trace == FullTrace
           IN  Cardinality(Range(trace)) = Len(trace)
        /\ (writeout.before = EmptyDisk /\ ~writeout.overwrite) =>
              writeout.exc # "FileExistsErr"

=============================================================================
